---- MODULE Spec2Model ----
(***************************************************************************)
(* Model of the DRFT race replay: the GPX track loader (parseGPX), the     *)
(* RaceMap playback clock (play/pause button, speed slider, timeline       *)
(* slider, animation frame), the marker lookup, the currents data sources  *)
(* (generateMockGrid, DATA_SOURCES) and the reference grid (generateGrid). *)
(*                                                                         *)
(* Numbers.  A JavaScript number is modelled as a record [nan, v]: NaN is  *)
(* [nan |-> TRUE], and every comparison with NaN is false, as in JS.       *)
(* Times are exact rationals held in units of 1/3 ms, so that the frame    *)
(* advance 1000 * playbackSpeed * (1/60) ms is an integer; floating-point  *)
(* rounding of sums and products is not modelled.  The one place where     *)
(* rounding decides a branch (the sign of Math.cos at an odd multiple of   *)
(* pi/2) is modelled in JsCos.                                             *)
(***************************************************************************)
EXTENDS Integers, Sequences, FiniteSets, TLC

VARIABLES
    gpx,            \* the content of /assets/race.gpx: coordinates and <time> strings
    raceData,       \* useState<RaceData | null>: <<>> is null, <<r>> is loaded
    currentTime,    \* useState<number>(0)
    isPlaying,      \* useState(false)
    playbackSpeed,  \* useState(100)
    activeSourceId, \* useState(DATA_SOURCES[0].id)
    last,           \* history: the last handler that ran and the input it was given
    call,           \* inputs of a direct call of a pure function
    result          \* what that call returned

vars == <<gpx, raceData, currentTime, isPlaying, playbackSpeed, activeSourceId,
          last, call, result>>

\* ------------------------------------------------------------------ bounds
MaxLen == 3
MaxTime == 3

\* ------------------------------------------------------------ JS numbers
Ms(x) == 3 * x

Num(n) == [nan |-> FALSE, v |-> n]

NaN == [nan |-> TRUE, v |-> 0]

Gt(a, b) == ~a.nan /\ ~b.nan /\ a.v > b.v

Geq(a, b) == ~a.nan /\ ~b.nan /\ a.v >= b.v

Leq(a, b) == Geq(b, a)

Add(a, b) == IF a.nan \/ b.nan THEN NaN ELSE Num(a.v + b.v)

\* --------------------------------------------------------------- parseGPX
\* A <time> string: absent, unparseable, or an ISO date (ms since the epoch).
NoTime == [kind |-> "none", ms |-> 0]

BadTime == [kind |-> "bad", ms |-> 0]

IsoTime(ms) == [kind |-> "iso", ms |-> ms]

\* if (timeStr): undefined and "" are falsy, every other string is truthy
Truthy(timeStr) == timeStr.kind # "none"

\* new Date(timeStr).getTime(): NaN for an unparseable string
DateGetTime(timeStr) == IF timeStr.kind = "iso" THEN Num(Ms(timeStr.ms)) ELSE NaN

KeepPoint(timeStr) == Truthy(timeStr)

RECURSIVE CollectPoints(_, _)
CollectPoints(coords, times) ==
    IF coords = <<>> THEN <<>>
    ELSE LET timeStr == IF times = <<>> THEN NoTime ELSE Head(times)
             rest == CollectPoints(Tail(coords),
                                   IF times = <<>> THEN <<>> ELSE Tail(times))
         IN  IF KeepPoint(timeStr)
             THEN <<[longitude |-> Head(coords)[1],
                     latitude |-> Head(coords)[2],
                     timestamp |-> DateGetTime(timeStr)]>> \o rest
             ELSE rest

parseGPX(gpxContent) ==
    LET trackPoints == CollectPoints(gpxContent.coords, gpxContent.coordTimes)
    IN  [trackPoints |-> trackPoints,
         startTime |-> IF Len(trackPoints) > 0 THEN trackPoints[1].timestamp ELSE Num(0),
         endTime |-> IF Len(trackPoints) > 0
                     THEN trackPoints[Len(trackPoints)].timestamp ELSE Num(0)]

\* ------------------------------------------------------ marker lookup
\* the lookup with > in place of >=
FirstAfter(trackPoints, t) ==
    LET hits == {i \in 1..Len(trackPoints) : Gt(trackPoints[i].timestamp, t)}
    IN  IF hits = {} THEN -1 ELSE (CHOOSE i \in hits : \A j \in hits : i <= j) - 1

\* trackPoints.findIndex(p => p.timestamp >= currentTime): 0-based, -1 if none
currentPointIndex(trackPoints, t) ==
    LET hits == {i \in 1..Len(trackPoints) : Geq(trackPoints[i].timestamp, t)}
    IN  IF hits = {} THEN -1 ELSE (CHOOSE i \in hits : \A j \in hits : i <= j) - 1

\* the 0-based index of the point the marker shows (trackPoints non-empty)
currentPoint(trackPoints, t) ==
    IF currentPointIndex(trackPoints, t) >= 0
    THEN currentPointIndex(trackPoints, t)
    ELSE Len(trackPoints) - 1

\* ------------------------------------------------------------- the clock
loaded == raceData # <<>>

rd == raceData[1]

\* a slider that hands over the position asked for as it is
RangeNoClamp(min, max, v) == v

\* <input type="range" min max>: the browser keeps the value within [min, max]
\* (value sanitization of the range state), so onChange never sees a value
\* outside them.
RangeInput(min, max, v) == IF v < min THEN min ELSE IF v > max THEN max ELSE v

\* a frame advance that is not clamped at endTime
AdvanceNoClamp(prev, speed, endTime) == Add(prev, Num(Ms(1000 * speed) \div 60))

\* const next = prev + 1000 * playbackSpeed * (1/60), in units of 1/3 ms;
\* endTime when next > endTime
Advance(prev, speed, endTime) ==
    LET next == Add(prev, Num(Ms(1000 * speed) \div 60))
    IN  IF Gt(next, endTime) THEN endTime ELSE next

\* an updater that clamps at endTime and never calls setIsPlaying(false)
NeverStops(prev, speed, endTime) == FALSE

\* if (next > raceData.endTime) setIsPlaying(false)
Overshoots(prev, speed, endTime) ==
    Gt(Add(prev, Num(Ms(1000 * speed) \div 60)), endTime)

\* a button that always starts playback
ToggleToPlaying(playing) == TRUE

Toggle(playing) == ~playing

NoOp == [op |-> "none", arg |-> 0]

\* fetch('/assets/race.gpx').then(parseGPX): setRaceData, setCurrentTime(startTime)
Load ==
    /\ ~loaded
    /\ raceData' = <<parseGPX(gpx)>>
    /\ currentTime' = parseGPX(gpx).startTime
    /\ last' = [op |-> "load", arg |-> 0]
    /\ UNCHANGED <<gpx, isPlaying, playbackSpeed, activeSourceId, call, result>>

\* one animation frame; elapsed is the real time since the previous frame,
\* which animate never reads
Tick(elapsed) ==
    /\ loaded
    /\ isPlaying
    /\ currentTime' = Advance(currentTime, playbackSpeed, rd.endTime)
    /\ isPlaying' = ~Overshoots(currentTime, playbackSpeed, rd.endTime)
    /\ last' = [op |-> "tick", arg |-> elapsed]
    /\ UNCHANGED <<gpx, raceData, playbackSpeed, activeSourceId, call, result>>

\* the PLAY / PAUSE button: onClick={() => setIsPlaying(!isPlaying)}
TogglePlay ==
    /\ loaded
    /\ isPlaying' = Toggle(isPlaying)
    /\ last' = [op |-> "click", arg |-> 0]
    /\ UNCHANGED <<gpx, raceData, currentTime, playbackSpeed, activeSourceId,
                   call, result>>

\* the timeline slider: min={startTime} max={endTime} onChange={handleSliderChange};
\* t is the position asked for, in ms
Seek(t) ==
    /\ loaded
    /\ currentTime' = Num(RangeInput(rd.startTime.v, rd.endTime.v, Ms(t)))
    /\ last' = [op |-> "seek", arg |-> Ms(t)]
    /\ UNCHANGED <<gpx, raceData, isPlaying, playbackSpeed, activeSourceId,
                   call, result>>

MIN_SPEED == 10
MAX_SPEED == 500

\* the speed slider: min="10" max="500" onChange -> setPlaybackSpeed(Number(value))
\* a speed slider whose range starts at 0
SpeedSliderFromZero(x) == RangeInput(0, MAX_SPEED, x)

SpeedSlider(x) == RangeInput(MIN_SPEED, MAX_SPEED, x)

SetSpeed(x) ==
    /\ loaded
    /\ playbackSpeed' = SpeedSlider(x)
    /\ last' = [op |-> "speed", arg |-> x]
    /\ UNCHANGED <<gpx, raceData, currentTime, isPlaying, activeSourceId,
                   call, result>>

\* --------------------------------------------------------- data sources
\* phaseOffset in twelfths of a cycle, speedMultiplier in tenths,
\* directionOffset in millidegrees (0.1 rad = 5.730 degrees)
DATA_SOURCES ==
    << [id |-> "rws", phaseOffset |-> 0, speedMultiplier |-> 10, directionOffset |-> 0],
       [id |-> "cmems", phaseOffset |-> 3, speedMultiplier |-> 8, directionOffset |-> 5730] >>

TIDE_PERIOD_MS == 44712000

\* MAX_CURRENT_SPEED = 1.5 m/s, in tenths
MAX_CURRENT_SPEED == 15

\* FLOOD_DIR_RAD = 45 degrees, in millidegrees
FLOOD_DIR == 45000

Abs(x) == IF x < 0 THEN -x ELSE x

\* the % of JavaScript: the remainder has the sign of the dividend
JsRem(a, b) == IF a < 0 THEN -((-a) % b) ELSE a % b

\* Math.cos of an angle given in twelfths of a turn (phase * 2 * Math.PI with
\* phase a multiple of 1/12), as [sgn, mag]: the sign and the magnitude in
\* thousandths. Math.cos is even, and the double nearest to an odd multiple of
\* pi/2 is not a zero of the cosine: Math.cos(0.5 * Math.PI) is 6.1e-17 and
\* Math.cos(1.5 * Math.PI) is -1.8e-16, so at a quarter turn the result is a
\* tiny number (mag 0 here) that is > 0, and at three quarters one that is < 0.
JsCos(a) ==
    LET m == Abs(a) % 12
    IN  [sgn |-> IF m \in {0, 1, 2, 3, 10, 11} THEN 1 ELSE -1,
         mag |-> CASE m \in {0, 6} -> 1000
                   [] m \in {1, 5, 7, 11} -> 866
                   [] m \in {2, 4, 8, 10} -> 500
                   [] OTHER -> 0]

\* sine and cosine of a flow direction (millidegrees), in thousandths
SinDir(d) ==
    CASE d = 45000 -> 707 [] d = 225000 -> -707
      [] d = 50730 -> 774 [] d = 230730 -> -774 [] OTHER -> 0

CosDir(d) ==
    CASE d = 45000 -> 707 [] d = 225000 -> -707
      [] d = 50730 -> 633 [] d = 230730 -> -633 [] OTHER -> 0

\* getColor: speed in 1e-5 m/s, channels in thousandths
getColor(speed) ==
    LET full == 10000 * MAX_CURRENT_SPEED
        capped == IF speed < full THEN speed ELSE full
    IN  IF 2 * capped < full
        THEN LET t == (2 * capped * 1000) \div full
             IN  <<30000 + 58 * t, 58000 - 30 * t, 138000 - 3 * t>>
        ELSE LET t == ((2 * capped - full) * 1000) \div full
             IN  <<88000 + 167 * t, 28000 - 28 * t, 135000 + 65 * t>>

\* the body of the two loops of generateMockGrid: one sample at (lon, lat);
\* timestamp in 1/3 ms, a multiple of a twelfth of the tide period
Sample(lon, lat, timestamp, phaseOffset, speedMultiplier, directionOffset) ==
    LET period == Ms(TIDE_PERIOD_MS)
        phase == (JsRem(timestamp, period) * 12) \div period + phaseOffset
        cos == JsCos(phase)
        positive == cos.sgn > 0
        speed == cos.mag * MAX_CURRENT_SPEED * speedMultiplier
        flowDir == (IF positive THEN FLOOD_DIR ELSE FLOOD_DIR + 180000) + directionOffset
        u == speed * SinDir(flowDir)
        v == speed * CosDir(flowDir)
    IN  [position |-> <<lon, lat>>,
         vector |-> <<u, v, 0, flowDir % 360000>>,
         speed |-> speed,
         color |-> getColor(speed)]

RECURSIVE LatLoop(_, _, _, _, _, _, _, _)
LatLoop(lon, lat, maxLat, resolution, timestamp, po, sm, do) ==
    IF lat <= maxLat
    THEN <<Sample(lon, lat, timestamp, po, sm, do)>>
             \o LatLoop(lon, lat + resolution, maxLat, resolution, timestamp, po, sm, do)
    ELSE <<>>

RECURSIVE LonLoop(_, _, _, _, _, _, _)
LonLoop(lon, bounds, resolution, timestamp, po, sm, do) ==
    IF lon <= bounds[3]
    THEN LatLoop(lon, bounds[2], bounds[4], resolution, timestamp, po, sm, do)
             \o LonLoop(lon + resolution, bounds, resolution, timestamp, po, sm, do)
    ELSE <<>>

\* bounds = <<minLon, minLat, maxLon, maxLat>>, in thousandths of a degree
\* po, sm, do: phaseOffset, speedMultiplier, directionOffset
generateMockGrid(bounds, timestamp, resolution, po, sm, do) ==
    LonLoop(bounds[1], bounds, resolution, timestamp, po, sm, do)

getGrid(source, bounds, timestamp, resolution) ==
    generateMockGrid(bounds, timestamp, resolution, source.phaseOffset,
                     source.speedMultiplier, source.directionOffset)

\* DATA_SOURCES.find(s => s.id === id): the 1-based index, 0 for undefined
FindSource(id) ==
    LET hits == {i \in 1..Len(DATA_SOURCES) : DATA_SOURCES[i].id = id}
    IN  IF hits = {} THEN 0 ELSE CHOOSE i \in hits : \A j \in hits : i <= j

\* a lookup that falls back to the last registry entry
ActiveSourceOrLast(id) ==
    IF FindSource(id) # 0 THEN DATA_SOURCES[FindSource(id)]
    ELSE DATA_SOURCES[Len(DATA_SOURCES)]

\* DATA_SOURCES.find(s => s.id === activeSourceId) || DATA_SOURCES[0]
activeSource(id) ==
    IF FindSource(id) # 0 THEN DATA_SOURCES[FindSource(id)] ELSE DATA_SOURCES[1]

\* ------------------------------------------------------- generateGrid
\* Math.cos of the centre latitude (arc-minutes), in thousandths
CosLat(lat) ==
    CASE Abs(lat) = 0 -> 1000 [] Abs(lat) = 1800 -> 866 [] Abs(lat) = 3600 -> 500
      [] OTHER -> 1000

RECURSIVE LatLines(_, _, _)
LatLines(lat, bounds, latSpacing) ==
    IF lat <= bounds[4]
    THEN <<[path |-> <<<<bounds[1], lat>>, <<bounds[3], lat>>>>]>>
             \o LatLines(lat + latSpacing, bounds, latSpacing)
    ELSE <<>>

RECURSIVE LonLines(_, _, _)
LonLines(lon, bounds, lonSpacing) ==
    IF lon <= bounds[3]
    THEN <<[path |-> <<<<lon, bounds[2]>>, <<lon, bounds[4]>>>>]>>
             \o LonLines(lon + lonSpacing, bounds, lonSpacing)
    ELSE <<>>

\* bounds in arc-minutes (1/60 degree), spacingNm in nautical miles: 1 degree
\* of latitude is 60 nm, so latSpacing is spacingNm arc-minutes
generateGrid(bounds, spacingNm) ==
    LET latSpacing == spacingNm
        centerLat == (bounds[2] + bounds[4]) \div 2
        lonSpacing == (spacingNm * 1000) \div CosLat(centerLat)
    IN  LatLines(bounds[2], bounds, latSpacing) \o LonLines(bounds[1], bounds, lonSpacing)

\* a source button: onClick={() => setActiveSourceId(source.id)}
SelectSource(i) ==
    /\ loaded
    /\ activeSourceId' = DATA_SOURCES[i].id
    /\ last' = [op |-> "source", arg |-> i]
    /\ UNCHANGED <<gpx, raceData, currentTime, isPlaying, playbackSpeed, call, result>>

\* ------------------------------------------------------------- inputs
Timestamps == {1000 * k : k \in 0..MaxTime}

Gpx(times) == [coords |-> [i \in 1..Len(times) |-> <<i, i>>], coordTimes |-> times]

SeqsUpTo(S, n) == UNION {[1..k -> S] : k \in 0..n}

\* tracks whose every point has a parseable time, in non-decreasing order
WellFormedTracks ==
    {Gpx(ts) : ts \in {s \in SeqsUpTo({IsoTime(m) : m \in Timestamps}, MaxLen) :
                          \A i \in 1..Len(s) - 1 : s[i].ms <= s[i + 1].ms}}

\* slider positions asked for (ms), below, inside and above the track's range
SeekArgs == {1000 * k : k \in -1..MaxTime + 1} \cup {500}

SpeedArgs == {-5, 0, 10, 250, 700}

\* real time between two frames, in 1/3 ms: 120 Hz, 60 Hz, 30 Hz
FrameTimes == {25, 50, 100}

NoCall == [fn |-> "none"]

\* ------------------------------------------------------ the playback spec
Init ==
    /\ gpx \in WellFormedTracks
    /\ raceData = <<>>
    /\ currentTime = Num(0)
    /\ isPlaying = FALSE
    /\ playbackSpeed = 100
    /\ activeSourceId = DATA_SOURCES[1].id
    /\ last = NoOp
    /\ call = NoCall
    /\ result = <<>>

Next ==
    \/ Load
    \/ \E elapsed \in FrameTimes : Tick(elapsed)
    \/ TogglePlay
    \/ \E t \in SeekArgs : Seek(t)
    \/ \E x \in SpeedArgs : SetSpeed(x)
    \/ \E i \in 1..Len(DATA_SOURCES) : SelectSource(i)

Spec == Init /\ [][Next]_vars

\* ------------------------------------------------- the unattended spec
\* Playback left alone: the button and the timeline slider are used only
\* while Stopped, so once Playing no play, pause or seek arrives. The speed
\* slider and the source buttons stay in use.
Play == ~isPlaying /\ TogglePlay

SeekWhileStopped(t) == ~isPlaying /\ Seek(t)

\* animate re-registers itself with requestAnimationFrame on every frame, so
\* while isPlaying holds frames keep coming
Frame == \E elapsed \in FrameTimes : Tick(elapsed)

NextAuto ==
    \/ Load
    \/ Frame
    \/ Play
    \/ \E t \in SeekArgs : SeekWhileStopped(t)
    \/ \E x \in SpeedArgs : SetSpeed(x)
    \/ \E i \in 1..Len(DATA_SOURCES) : SelectSource(i)

SpecAuto == Init /\ [][NextAuto]_vars /\ WF_vars(Frame)

\* ------------------------------------------------------- the loader spec
\* tracks whose <time> strings may be absent or unparseable, in any order
RawTracks ==
    {Gpx(ts) : ts \in SeqsUpTo({NoTime, BadTime} \cup {IsoTime(m) : m \in Timestamps},
                               MaxLen)}

InitTrack ==
    /\ gpx \in RawTracks
    /\ raceData = <<>>
    /\ currentTime = Num(0)
    /\ isPlaying = FALSE
    /\ playbackSpeed = 100
    /\ activeSourceId = DATA_SOURCES[1].id
    /\ last = NoOp
    /\ call = NoCall
    /\ result = <<>>

NextTrack == Load

SpecTrack == InitTrack /\ [][NextTrack]_vars

\* ------------------------------------------------------- the marker spec
\* the track of the end-to-end scenario: two points, at 0 and at 3,600,000 ms
ScenarioTrack == Gpx(<<IsoTime(0), IsoTime(3600000)>>)

LookupTimes ==
    {1000 * k + d : k \in -1..MaxTime + 1, d \in {-1, 0, 1}}
        \cup {1800000, 3600000, 3600001}

\* the marker of one frame drawn at time t (ms): no marker for an empty track
Lookup(t) ==
    /\ loaded
    /\ call' = [fn |-> "pointAtOrAfter", t |-> Num(Ms(t))]
    /\ result' = IF Len(rd.trackPoints) = 0 THEN <<>>
                 ELSE <<currentPoint(rd.trackPoints, Num(Ms(t)))>>
    /\ UNCHANGED <<gpx, raceData, currentTime, isPlaying, playbackSpeed,
                   activeSourceId, last>>

InitMarker ==
    /\ gpx \in WellFormedTracks \cup {ScenarioTrack}
    /\ raceData = <<>>
    /\ currentTime = Num(0)
    /\ isPlaying = FALSE
    /\ playbackSpeed = 100
    /\ activeSourceId = DATA_SOURCES[1].id
    /\ last = NoOp
    /\ call = NoCall
    /\ result = <<>>

NextMarker ==
    \/ Load
    \/ \E t \in LookupTimes : Lookup(t)

SpecMarker == InitMarker /\ [][NextMarker]_vars

\* -------------------------------------------------------- the field spec
FieldSpan == 13

\* timestamps on the twelfths of the tide period, before and after the epoch
FieldTimes == {Ms(k * (TIDE_PERIOD_MS \div 12)) : k \in -FieldSpan..FieldSpan}

SourceIds == {DATA_SOURCES[i].id : i \in 1..Len(DATA_SOURCES)} \cup {"noaa", ""}

\* boxes in thousandths of a degree, well-formed and degenerate
FieldBoxes == {<<a, b, c, d>> : a \in {0, 2}, b \in {0, 2}, c \in {0, 2, 4}, d \in {0, 2, 4}}

Resolutions == {2, 3}

\* boxes in arc-minutes: 0, 60 and 120 degrees of longitude, -60..60 of latitude
GridBoxes ==
    {<<a, b, c, d>> : a \in {0, 3600}, b \in {-3600, 0, 3600},
                      c \in {0, 3600, 7200}, d \in {-3600, 0, 3600}}

Spacings == {1800, 3600}

\* the currents of one frame: activeSource.getGrid(bounds, currentTime, resolution)
RenderCurrents(bounds, resolution) ==
    /\ call' = [fn |-> "getGrid", bounds |-> bounds, step |-> resolution]
    /\ result' = getGrid(activeSource(activeSourceId), bounds, currentTime.v, resolution)
    /\ UNCHANGED <<gpx, raceData, currentTime, isPlaying, playbackSpeed,
                   activeSourceId, last>>

\* the reference grid of one frame: generateGrid(bounds, spacingNm)
RenderGrid(bounds, spacingNm) ==
    /\ call' = [fn |-> "generateGrid", bounds |-> bounds, step |-> spacingNm]
    /\ result' = generateGrid(bounds, spacingNm)
    /\ UNCHANGED <<gpx, raceData, currentTime, isPlaying, playbackSpeed,
                   activeSourceId, last>>

InitField ==
    /\ gpx = Gpx(<<>>)
    /\ raceData = <<>>
    /\ currentTime \in {Num(t) : t \in FieldTimes}
    /\ isPlaying = FALSE
    /\ playbackSpeed = 100
    /\ activeSourceId \in SourceIds
    /\ last = NoOp
    /\ call = NoCall
    /\ result = <<>>

NextField ==
    \/ \E b \in FieldBoxes, r \in Resolutions : RenderCurrents(b, r)
    \/ \E b \in GridBoxes, s \in Spacings : RenderGrid(b, s)

SpecField == InitField /\ [][NextField]_vars

\* ------------------------------------------------------------ the claims

\* C1: once the timeline is loaded, startTime <= currentTime <= endTime in
\* every reachable state, whatever play, pause, seek, setSpeed and tick did.
ClockWithinTimeline ==
    loaded => Leq(rd.startTime, currentTime) /\ Leq(currentTime, rd.endTime)

\* a frame overshot the end of a track of positive length and was clamped
ClockClampedAtEnd ==
    /\ loaded
    /\ last.op = "tick"
    /\ ~isPlaying
    /\ currentTime = rd.endTime
    /\ Gt(rd.endTime, rd.startTime)

\* C2: a tick with real elapsed time r and multiplier m sets currentTime to
\* min(currentTime + r*m, endTime), and stops the clock exactly when the
\* advanced time exceeded endTime.
TickAdvancesByElapsed ==
    [][last'.op = "tick" =>
          LET advanced == Add(currentTime, Num(last'.arg * playbackSpeed))
          IN  /\ currentTime' = IF Gt(advanced, rd.endTime) THEN rd.endTime ELSE advanced
              /\ isPlaying' = ~Gt(advanced, rd.endTime)]_vars

SeekClamps ==
    [][last'.op = "seek" =>
          /\ currentTime' = (IF last'.arg < rd.startTime.v THEN rd.startTime
                             ELSE IF last'.arg > rd.endTime.v THEN rd.endTime
                             ELSE Num(last'.arg))
          /\ isPlaying' = isPlaying
          /\ playbackSpeed' = playbackSpeed]_vars

\* a seek past the end of the track while Playing
SeekPastEndWhilePlaying ==
    /\ loaded
    /\ last.op = "seek"
    /\ isPlaying
    /\ last.arg > rd.endTime.v
    /\ currentTime = rd.endTime

\* C6: the speed multiplier is positive in every reachable state, so a tick
\* before the end of the track strictly increases currentTime.
SpeedStaysPositive ==
    /\ [](playbackSpeed > 0)
    /\ [][last'.op = "tick" /\ Gt(rd.endTime, currentTime) =>
             Gt(currentTime', currentTime)]_vars

\* setSpeed was asked for a multiplier <= 0 and the minimum was set
NonPositiveSpeedClamped ==
    /\ last.op = "speed"
    /\ last.arg <= 0
    /\ playbackSpeed = MIN_SPEED

\* C5: for a non-empty timeline the marker lookup returns the first point in
\* sequence order whose timestamp >= t, and the last point when there is
\* none; the lookup at startTime is the first point, at endTime + 1 the last
\* point, and the scenario track sought to 1,800,000 shows its second point.
MarkerIsFirstAtOrAfter ==
    call.fn = "pointAtOrAfter" /\ result # <<>> =>
        LET pts == rd.trackPoints
            t == call.t
            at == result[1] + 1
        IN  /\ at \in 1..Len(pts)
            /\ (\E i \in 1..Len(pts) : Geq(pts[i].timestamp, t)) =>
                   /\ Geq(pts[at].timestamp, t)
                   /\ \A j \in 1..at - 1 : ~Geq(pts[j].timestamp, t)
            /\ ~(\E i \in 1..Len(pts) : Geq(pts[i].timestamp, t)) => at = Len(pts)
            /\ t = rd.startTime => at = 1
            /\ t = Add(rd.endTime, Num(Ms(1))) => at = Len(pts)
            /\ gpx = ScenarioTrack /\ t = Num(Ms(1800000)) => at = 2

\* the scenario: the two-point track, looked up at 1,800,000 ms
ScenarioLookup ==
    /\ gpx = ScenarioTrack
    /\ call.fn = "pointAtOrAfter"
    /\ call.t = Num(Ms(1800000))
    /\ result = <<1>>

\* C9: loading drops every point whose timestamp is missing or malformed,
\* keeps every other point in order, so that every point of the timeline has
\* a valid timestamp, and reports the number of dropped points.
LoadDropsBadTimestamps ==
    loaded =>
        LET valid == SelectSeq(gpx.coordTimes, LAMBDA s : s.kind = "iso")
            dropped == Len(gpx.coordTimes) - Len(valid)
        IN  /\ \A i \in 1..Len(rd.trackPoints) : ~rd.trackPoints[i].timestamp.nan
            /\ Len(rd.trackPoints) = Len(valid)
            /\ \A i \in 1..Len(valid) :
                   rd.trackPoints[i].timestamp = Num(Ms(valid[i].ms))
            /\ dropped > 0 => "dropped" \in DOMAIN rd

\* C7: the field of the frame is produced by the registry entry whose id is
\* the active source id, and by the first entry when no entry has that id.
FieldFromActiveOrFirstSource ==
    call.fn = "getGrid" =>
        result = CASE activeSourceId = "rws" ->
                        generateMockGrid(call.bounds, currentTime.v, call.step, 0, 10, 0)
                   [] activeSourceId = "cmems" ->
                        generateMockGrid(call.bounds, currentTime.v, call.step, 3, 8, 5730)
                   [] OTHER ->
                        generateMockGrid(call.bounds, currentTime.v, call.step, 0, 10, 0)

\* a frame with samples, drawn while the active id names no registry entry
UnknownSourceRendered ==
    /\ call.fn = "getGrid"
    /\ FindSource(activeSourceId) = 0
    /\ Len(result) > 1

\* C8: for a degenerate box (minLon >= maxLon or minLat >= maxLat) both grid
\* generators return the empty sequence.
DegenerateBoxIsEmpty ==
    (/\ call.fn \in {"getGrid", "generateGrid"}
     /\ (call.bounds[1] >= call.bounds[3] \/ call.bounds[2] >= call.bounds[4]))
        => result = <<>>

\* C10: the grid at t + tidePeriod has the positions, speeds and directions
\* of the grid at t.
TidalPeriodicity ==
    call.fn = "getGrid" =>
        LET later == getGrid(activeSource(activeSourceId), call.bounds,
                             currentTime.v + Ms(TIDE_PERIOD_MS), call.step)
        IN  /\ Len(later) = Len(result)
            /\ \A i \in 1..Len(result) :
                   /\ later[i].position = result[i].position
                   /\ later[i].speed = result[i].speed
                   /\ later[i].vector[4] = result[i].vector[4]

\* C11: once Playing on a loaded timeline, with frames arriving and no play,
\* pause or seek, the clock eventually is Stopped with currentTime = endTime,
\* and currentTime never decreases while Playing; this covers a frame that
\* lands exactly on endTime and play pressed at endTime.
AutoPauseAtEnd ==
    /\ (loaded /\ isPlaying) ~> (loaded /\ ~isPlaying /\ currentTime = rd.endTime)
    /\ [][isPlaying => Geq(currentTime', currentTime)]_vars

\* a frame landed exactly on endTime of a track of positive length: the clock
\* is at the end and still Playing
LandedOnEndStillPlaying ==
    /\ loaded
    /\ isPlaying
    /\ last.op = "tick"
    /\ currentTime = rd.endTime
    /\ Gt(rd.endTime, rd.startTime)

====
